---- MODULE Spec2Model ----
(***************************************************************************)
(* Model of linked5: a doubly linked list of i64 built from                *)
(* Rc<RefCell<Node>> (strong next) and Weak<RefCell<Node>> (weak prev).    *)
(*                                                                         *)
(* A node reference is a node id (1, 2, ...) or 0 for None / Weak::new().  *)
(* Ids are never reused.  An Option<i64> or a Vec<i64> result is a         *)
(* sequence: None is << >>, Some(v) is << v >>.                            *)
(*                                                                         *)
(* The singly linked list of linked4 (Box<LinkedList1>) is modelled in the *)
(* variable l4, with its own next-state relation NextLinked4.              *)
(***************************************************************************)
EXTENDS Integers, Sequences, FiniteSets, TLC

\* Bounds of the model.
MaxNodes == 3      \* nodes allocated over one run
MaxLen == 3        \* length of the slice handed to from_vec
MaxVal == 1        \* values are 0..MaxVal
MaxNone == 1       \* calls that change nothing (a pop of an empty list, a concat
                   \* of an empty list) recorded in a run

MaxHeld == 1       \* node handles from iter_mut the caller keeps at one time

Vals == 0..MaxVal

VARIABLES
  l4,         \* linked4: the List, the list last passed to concat_copy, panicked
  heap,       \* the Rc<RefCell<Node>> allocations, see EmptyHeap
  first,      \* List.first : Option<Rc<RefCell<Node>>>
  tail,       \* List.tail  : Weak<RefCell<Node>>
  listLive,   \* FALSE once the List has been dropped
  itLive,     \* an IterList exists
  cursor,     \* IterList.cursor
  revcursor,  \* IterList.revcursor
  fwd,        \* values this IterList has yielded from next()
  bwd,        \* values this IterList has yielded from next_back()
  mutLive,    \* an IterListMut exists
  mutcursor,  \* IterListMut.cursor
  got,        \* nodes this IterListMut has yielded from next()
  held,       \* nodes whose yielded Rc handle the caller still keeps
  op,         \* name of the last operation
  arg,        \* its argument (a sequence of values)
  ret,        \* its result
  contents,   \* reference sequence: what the list should hold
  pre,        \* the reference sequence before the last operation
  run         \* what the calls since construction have been, see RunBuild

vars == << l4, heap, first, tail, listLive, itLive, cursor, revcursor, fwd, bwd,
           mutLive, mutcursor, got, held, op, arg, ret, contents, pre, run >>

----------------------------------------------------------------------------
\* Sequences

RECURSIVE Reverse(_)
Reverse(s) == IF s = << >> THEN << >> ELSE Append(Reverse(Tail(s)), Head(s))

RECURSIVE Repeat(_, _)
Repeat(s, k) == IF k = 0 THEN << >> ELSE s \o Repeat(s, k - 1)

Front(s) == SubSeq(s, 1, Len(s) - 1)

Max(a, b) == IF a >= b THEN a ELSE b

SeqsUpTo(n) == UNION { [1..k -> Vals] : k \in 0..n }

----------------------------------------------------------------------------
\* The heap: Rc, Weak and RefCell

\* value, next, prev: the fields of Node, by node id.
\* strong: the Rc strong count; a node is freed when it reaches 0.
\* borrow: the RefCell flag, 0 unborrowed, -1 mutably, k > 0 shared k times.
\* panic: a RefCell borrow failed (BorrowMutError / BorrowError).
\* maxborrow: most cells borrowed at once during the last operation.
\* depth, maxdepth: node destructions in progress, and their maximum
\* during the last operation.
\* iters: evaluations of the while-let of Node::drop during the last operation.
\* nested: during the last operation a node was destroyed inside another
\* node's destruction while its next was not empty.
EmptyHeap ==
  [ value |-> << >>, next |-> << >>, prev |-> << >>, strong |-> << >>,
    borrow |-> << >>, panic |-> FALSE, maxborrow |-> 0,
    depth |-> 0, maxdepth |-> 0, iters |-> 0, nested |-> FALSE ]

NAlloc(h) == Len(h.value)

\* Mutant of RcNew: prev is an Rc, so the new node keeps its predecessor alive.
RcNewStrongPrev(h, v, pv, nx) ==
  [ h EXCEPT !.value = Append(@, v), !.next = Append(@, nx),
             !.prev = Append(@, pv),
             !.strong = Append(IF pv = 0 THEN @ ELSE [ @ EXCEPT ![pv] = @ + 1 ], 1),
             !.borrow = Append(@, 0) ]

\* Rc::new(RefCell::new(Node { value, prev, next })): the new id is NAlloc + 1.
RcNew(h, v, pv, nx) ==
  [ h EXCEPT !.value = Append(@, v), !.next = Append(@, nx),
             !.prev = Append(@, pv), !.strong = Append(@, 1),
             !.borrow = Append(@, 0) ]

\* Rc::clone
RcClone(h, n) == IF n = 0 THEN h ELSE [ h EXCEPT !.strong[n] = @ + 1 ]

\* Mutant of Upgrade: a Weak resolves to its node even after the node is freed.
UpgradeFreed(h, w) == w

\* Weak::upgrade: the node when it is still allocated, else None.
\* The caller owns the Rc it gets and counts it with RcClone.
Upgrade(h, w) == IF w # 0 /\ h.strong[w] > 0 THEN w ELSE 0

Borrowed(h) == { n \in 1..NAlloc(h) : h.borrow[n] # 0 }

\* RefCell::borrow_mut
BorrowMut(h, n) ==
  IF h.borrow[n] # 0
  THEN [ h EXCEPT !.panic = TRUE ]
  ELSE LET h1 == [ h EXCEPT !.borrow[n] = -1 ]
       IN [ h1 EXCEPT !.maxborrow = Max(@, Cardinality(Borrowed(h1))) ]

\* RefCell::borrow
BorrowShared(h, n) ==
  IF h.borrow[n] < 0
  THEN [ h EXCEPT !.panic = TRUE ]
  ELSE LET h1 == [ h EXCEPT !.borrow[n] = @ + 1 ]
       IN [ h1 EXCEPT !.maxborrow = Max(@, Cardinality(Borrowed(h1))) ]

\* Mutant of ReleaseShared: a Ref is never released.
ReleaseSharedLeaks(h, n) == h

\* drop of a RefMut / of a Ref
ReleaseMut(h, n) == [ h EXCEPT !.borrow[n] = 0 ]
ReleaseShared(h, n) == [ h EXCEPT !.borrow[n] = IF @ > 0 THEN @ - 1 ELSE @ ]

\* In the operators below a LET name is read once; a field that the steps in
\* between leave alone is read from the heap the operator was given.

RECURSIVE DropRc(_, _)
RECURSIVE DropLoop(_, _)

\* One evaluation of `while let Some(curnext) = cur.clone().borrow_mut().next.take()`
\* and of the loop body, with the local `cur`.
DropLoop(h, cur) ==
  LET curnext == h.next[cur]
      \* cur.clone().borrow_mut().next.take()
      h1 == [ BorrowMut(RcClone(h, cur), cur) EXCEPT !.next[cur] = 0,
                                                     !.iters = @ + 1 ]
  IN IF curnext = 0
     THEN \* the pattern fails: the temporaries go, the loop ends, cur goes
          DropRc(DropRc(ReleaseMut(h1, cur), cur), cur)
     ELSE LET \* curnext.borrow().next.is_some()
              h2 == ReleaseShared(BorrowShared(h1, curnext), curnext)
          IN IF h.next[curnext] # 0
             THEN LET h3 == DropRc(RcClone(h2, curnext), cur)  \* cur = curnext.clone()
                      h4 == DropRc(h3, curnext)                \* end of body: curnext
                      h5 == DropRc(ReleaseMut(h4, cur), cur)   \* the temporaries
                  IN DropLoop(h5, curnext)
             ELSE \* return: curnext, the temporaries, cur
                  LET h3 == DropRc(h2, curnext)
                      h4 == DropRc(ReleaseMut(h3, cur), cur)
                  IN DropRc(h4, cur)

\* Mutant of NodeDrop: no Drop impl, the fields are dropped recursively.
NodeDropDerived(h, n) == h

\* impl Drop for Node: runs on node n when its strong count has reached 0.
NodeDrop(h, n) ==
  IF h.next[n] = 0
  THEN h
  ELSE DropLoop(RcClone(h, h.next[n]), h.next[n])   \* let mut cur = rc.clone()

\* Drop of one Rc to node n.  At strong count 0 the node is destroyed:
\* Node::drop runs, then the fields are dropped (prev, a Weak, then next).
DropRc(h, n) ==
  IF n = 0
  THEN h
  ELSE IF h.strong[n] > 1
  THEN [ h EXCEPT !.strong[n] = @ - 1 ]
  ELSE LET h1 == [ h EXCEPT !.strong[n] = 0, !.depth = @ + 1,
                            !.maxdepth = Max(@, h.depth + 1),
                            !.nested = @ \/ (h.depth > 0 /\ h.next[n] # 0) ]
           h2 == [ NodeDrop(h1, n) EXCEPT !.next[n] = 0, !.prev[n] = 0 ]
           h3 == DropRc(h2, h.next[n])               \* Node::drop leaves self.next alone
       IN [ h3 EXCEPT !.depth = @ - 1 ]

\* The ghost counters start afresh with each operation.
Fresh(h) == [ h EXCEPT !.maxborrow = 0, !.maxdepth = 0, !.iters = 0, !.nested = FALSE ]

----------------------------------------------------------------------------
\* List: construction

\* List::new / Default::default
ListNew == [ first |-> 0, tail |-> 0 ]

\* v.iter().map(|n| Node {..}).map(|n| Rc::new(RefCell::new(n))).collect()
RECURSIVE AllocNodes(_, _)
AllocNodes(h, v) ==
  IF v = << >> THEN h ELSE AllocNodes(RcNew(h, Head(v), 0, 0), Tail(v))

\* Mutant of LinkNodes: the loop stops one pair early (0..nodes.len()-2).
RECURSIVE LinkNodesShort(_, _, _, _)
LinkNodesShort(h, base, n, i) ==
  IF i >= n - 2
  THEN h
  ELSE LET a == base + i + 1
           b == base + i + 2
           h1 == RcClone(BorrowMut(h, a), b)
           h2 == ReleaseMut([ h1 EXCEPT !.next[a] = b ], a)
           h3 == BorrowMut(h2, b)
           h4 == ReleaseMut([ h3 EXCEPT !.prev[b] = a ], b)
       IN LinkNodesShort(h4, base, n, i + 1)

\* Mutant of LinkNodes: nodes[i+1].prev is never set.
RECURSIVE LinkNodesNoPrev(_, _, _, _)
LinkNodesNoPrev(h, base, n, i) ==
  IF i >= n - 1
  THEN h
  ELSE LET a == base + i + 1
           b == base + i + 2
           h1 == RcClone(BorrowMut(h, a), b)
           h2 == ReleaseMut([ h1 EXCEPT !.next[a] = b ], a)
       IN LinkNodesNoPrev(h2, base, n, i + 1)

\* for i in 0..nodes.len()-1 { nodes[i].next = nodes[i+1]; nodes[i+1].prev = nodes[i] }
\* nodes[i] is node base + i + 1.
RECURSIVE LinkNodes(_, _, _, _)
LinkNodes(h, base, n, i) ==
  IF i >= n - 1
  THEN h
  ELSE LET a == base + i + 1
           b == base + i + 2
           h1 == RcClone(BorrowMut(h, a), b)
           h2 == ReleaseMut([ h1 EXCEPT !.next[a] = b ], a)
           h3 == BorrowMut(h2, b)
           h4 == ReleaseMut([ h3 EXCEPT !.prev[b] = a ], b)
       IN LinkNodes(h4, base, n, i + 1)

\* the Vec `nodes` goes out of scope: its Rcs are dropped front to back
RECURSIVE DropNodes(_, _, _, _)
DropNodes(h, base, n, i) ==
  IF i >= n THEN h ELSE DropNodes(DropRc(h, base + i + 1), base, n, i + 1)

\* List::from_vec
FromVec(h, v) ==
  IF v = << >>
  THEN [ heap |-> h, first |-> 0, tail |-> 0 ]
  ELSE LET base == NAlloc(h)
           n == Len(v)
           h1 == LinkNodes(AllocNodes(h, v), base, n, 0)
           h2 == RcClone(h1, base + 1)             \* first: Some(nodes[0].clone())
       IN [ heap |-> DropNodes(h2, base, n, 0), first |-> base + 1, tail |-> base + n ]

----------------------------------------------------------------------------
\* IterList

\* Mutant of PtrEq: the nodes are compared by value.
PtrEqByValue(h, a, b) == h.value[a] = h.value[b]

\* ptr::eq(rnode.deref(), node.deref()): the two Rcs are the same allocation
PtrEq(h, a, b) == a = b

\* List::iter
Iter(h, f, t) ==
  [ heap |-> RcClone(RcClone(h, f), Upgrade(h, t)),
    cursor |-> f, revcursor |-> Upgrade(h, t) ]

\* <IterList as Iterator>::next
IterNext(h, c, r) ==
  IF c = 0
  THEN [ heap |-> h, cursor |-> 0, ret |-> << >> ]
  ELSE LET h1 == ReleaseShared(BorrowShared(h, c), c)      \* c.borrow().value
           reached_rcursor == r # 0 /\ PtrEq(h, r, c)
           nx == IF reached_rcursor THEN 0 ELSE h.next[c]
           h2 == IF reached_rcursor
                 THEN h1
                 ELSE RcClone(ReleaseShared(BorrowShared(h1, c), c), nx)
       IN [ heap |-> DropRc(h2, c),                        \* self.cursor = ...
            cursor |-> nx, ret |-> << h.value[c] >> ]

\* <IterList as DoubleEndedIterator>::next_back
IterNextBack(h, c, r) ==
  IF r = 0
  THEN [ heap |-> h, revcursor |-> 0, ret |-> << >> ]
  ELSE LET h1 == ReleaseShared(BorrowShared(h, r), r)
           reached_lcursor == c # 0 /\ PtrEq(h, c, r)
           pv == IF reached_lcursor THEN 0 ELSE Upgrade(h, h.prev[r])
           h2 == IF reached_lcursor
                 THEN h1
                 ELSE RcClone(ReleaseShared(BorrowShared(h1, r), r), pv)
       IN [ heap |-> DropRc(h2, r),                        \* self.revcursor = ...
            revcursor |-> pv, ret |-> << h.value[r] >> ]

\* Mutant of IterDrop: the Rc in cursor is never released.
IterDropKeepsCursor(h, c, r) == DropRc(h, r)

\* drop of an IterList: its fields in declaration order
IterDrop(h, c, r) == DropRc(DropRc(h, c), r)

\* collect() over next(): until it returns None
RECURSIVE CollectFwd(_, _, _, _)
CollectFwd(h, c, r, acc) ==
  LET s == IterNext(h, c, r)
  IN IF s.ret = << >>
     THEN [ heap |-> IterDrop(s.heap, s.cursor, r), ret |-> acc ]
     ELSE CollectFwd(s.heap, s.cursor, r, acc \o s.ret)

\* rev().collect(): next_back() until it returns None
RECURSIVE CollectBack(_, _, _, _)
CollectBack(h, c, r, acc) ==
  LET s == IterNextBack(h, c, r)
  IN IF s.ret = << >>
     THEN [ heap |-> IterDrop(s.heap, c, s.revcursor), ret |-> acc ]
     ELSE CollectBack(s.heap, c, s.revcursor, acc \o s.ret)

\* List::to_vec
ToVec(h, f, t) ==
  CollectFwd(RcClone(RcClone(h, f), Upgrade(h, t)), f, Upgrade(h, t), << >>)

\* List::to_vec_rev
ToVecRev(h, f, t) ==
  CollectBack(RcClone(RcClone(h, f), Upgrade(h, t)), f, Upgrade(h, t), << >>)

\* List::iter_mut: self.first.clone() becomes the cursor
IterMut(h, f) == [ heap |-> RcClone(h, f), cursor |-> f ]

\* Mutant of IterMutNext: the cursor moves on by two nodes.
IterMutNextSkips(h, c) ==
  IF c = 0
  THEN [ heap |-> h, cursor |-> 0, ret |-> 0 ]
  ELSE [ heap |-> DropRc(RcClone(RcClone(h, c),
                                 IF h.next[c] = 0 THEN 0 ELSE h.next[h.next[c]]), c),
         cursor |-> IF h.next[c] = 0 THEN 0 ELSE h.next[h.next[c]],
         ret |-> c ]

\* IterListMut::next: rc = self.cursor.clone(); self.cursor = rc.borrow().next.clone();
\* the old value of self.cursor is dropped by the assignment; Some(rc) is returned.
\* ret is the node of the handle, 0 for None.
IterMutNext(h, c) ==
  IF c = 0
  THEN [ heap |-> h, cursor |-> 0, ret |-> 0 ]
  ELSE [ heap |-> ReleaseShared(
                    DropRc(RcClone(BorrowShared(RcClone(h, c), c), h.next[c]), c), c),
         cursor |-> h.next[c],
         ret |-> c ]

\* handle.borrow_mut().value = v, on a handle that IterListMut::next returned
HandleWrite(h, n, v) == ReleaseMut([ BorrowMut(h, n) EXCEPT !.value[n] = v ], n)

----------------------------------------------------------------------------
\* List: the operations

\* Mutant of Concat: a non-empty receiver keeps its old tail.
ConcatKeepsTail(h, f, t, of, ot) ==
  IF of = 0
  THEN [ heap |-> h, first |-> f, tail |-> t ]
  ELSE LET tl == Upgrade(h, t)
       IN IF tl # 0
          THEN LET h1 == BorrowMut(BorrowMut(RcClone(h, tl), tl), of)
                   h2 == ReleaseMut([ h1 EXCEPT !.prev[of] = tl ], of)
                   h3 == DropRc([ h2 EXCEPT !.next[tl] = of ], h.next[tl])
               IN [ heap |-> DropRc(ReleaseMut(h3, tl), tl), first |-> f, tail |-> t ]
          ELSE [ heap |-> DropRc(h, f), first |-> of, tail |-> ot ]

\* Mutant of Concat: an empty argument resets the receiver's tail.
ConcatEmptyResetsTail(h, f, t, of, ot) ==
  IF of = 0
  THEN [ heap |-> h, first |-> f, tail |-> ot ]
  ELSE LET tl == Upgrade(h, t)
       IN IF tl # 0
          THEN LET h1 == BorrowMut(BorrowMut(RcClone(h, tl), tl), of)
                   h2 == ReleaseMut([ h1 EXCEPT !.prev[of] = tl ], of)
                   h3 == DropRc([ h2 EXCEPT !.next[tl] = of ], h.next[tl])
               IN [ heap |-> DropRc(ReleaseMut(h3, tl), tl), first |-> f, tail |-> ot ]
          ELSE [ heap |-> DropRc(h, f), first |-> of, tail |-> ot ]

\* Mutant of Concat: other's first node keeps the prev it had.
ConcatNoSeamPrev(h, f, t, of, ot) ==
  IF of = 0
  THEN [ heap |-> h, first |-> f, tail |-> t ]
  ELSE LET tl == Upgrade(h, t)
       IN IF tl # 0
          THEN LET h1 == BorrowMut(BorrowMut(RcClone(h, tl), tl), of)
                   h2 == ReleaseMut(h1, of)
                   h3 == DropRc([ h2 EXCEPT !.next[tl] = of ], h.next[tl])
               IN [ heap |-> DropRc(ReleaseMut(h3, tl), tl), first |-> f, tail |-> ot ]
          ELSE [ heap |-> DropRc(h, f), first |-> of, tail |-> ot ]

\* Mutant of Concat: the receiver's tail gets a clone of other's first Rc,
\* and the consumed list keeps its own.
ConcatClonesFirst(h, f, t, of, ot) ==
  IF of = 0
  THEN [ heap |-> h, first |-> f, tail |-> t ]
  ELSE LET tl == Upgrade(h, t)
       IN IF tl # 0
          THEN LET h1 == BorrowMut(BorrowMut(RcClone(h, tl), tl), of)
                   h2 == ReleaseMut([ h1 EXCEPT !.prev[of] = tl ], of)
                   h3 == DropRc(RcClone([ h2 EXCEPT !.next[tl] = of ], of), h.next[tl])
               IN [ heap |-> DropRc(ReleaseMut(h3, tl), tl), first |-> f, tail |-> ot ]
          ELSE [ heap |-> DropRc(h, f), first |-> of, tail |-> ot ]

\* List::concat, with other_list = [first |-> of, tail |-> ot]
Concat(h, f, t, of, ot) ==
  IF of = 0
  THEN [ heap |-> h, first |-> f, tail |-> t ]
  ELSE LET tl == Upgrade(h, t)
       IN IF tl # 0
          THEN LET \* muttail = tail.borrow_mut(); other.borrow_mut()
                   h1 == BorrowMut(BorrowMut(RcClone(h, tl), tl), of)
                   h2 == ReleaseMut([ h1 EXCEPT !.prev[of] = tl ], of)
                   \* muttail.next = Some(other): the old next is dropped
                   h3 == DropRc([ h2 EXCEPT !.next[tl] = of ], h.next[tl])
               IN [ heap |-> DropRc(ReleaseMut(h3, tl), tl), first |-> f, tail |-> ot ]
          ELSE [ heap |-> DropRc(h, f), first |-> of, tail |-> ot ]

\* Mutant of ListAppend: on an empty list self.first is left as it was.
AppendEmptyKeepsFirst(h, f, t, v) ==
  LET tl == Upgrade(h, t)
      o == NAlloc(h) + 1
  IN IF tl # 0
     THEN LET h1 == RcNew(BorrowMut(RcClone(h, tl), tl), v, tl, 0)
              h2 == DropRc([ h1 EXCEPT !.next[tl] = o ], h.next[tl])
          IN [ heap |-> DropRc(ReleaseMut(h2, tl), tl), first |-> f, tail |-> o ]
     ELSE [ heap |-> DropRc(RcNew(h, v, 0, 0), o), first |-> f, tail |-> o ]

\* Mutant of ListAppend: self.tail stays at the old tail of a non-empty list.
AppendKeepsTail(h, f, t, v) ==
  LET tl == Upgrade(h, t)
      o == NAlloc(h) + 1
  IN IF tl # 0
     THEN LET h1 == RcNew(BorrowMut(RcClone(h, tl), tl), v, tl, 0)
              h2 == DropRc([ h1 EXCEPT !.next[tl] = o ], h.next[tl])
          IN [ heap |-> DropRc(ReleaseMut(h2, tl), tl), first |-> f, tail |-> t ]
     ELSE LET h1 == RcClone(RcNew(h, v, 0, 0), o)
              h2 == DropRc(h1, f)
          IN [ heap |-> DropRc(h2, o), first |-> o, tail |-> o ]

\* Mutant of ListAppend: the new node's prev is Weak::new().
AppendNoPrev(h, f, t, v) ==
  LET tl == Upgrade(h, t)
      o == NAlloc(h) + 1
  IN IF tl # 0
     THEN LET h1 == RcNew(BorrowMut(RcClone(h, tl), tl), v, 0, 0)
              h2 == DropRc([ h1 EXCEPT !.next[tl] = o ], h.next[tl])
          IN [ heap |-> DropRc(ReleaseMut(h2, tl), tl), first |-> f, tail |-> o ]
     ELSE LET h1 == RcClone(RcNew(h, v, 0, 0), o)
              h2 == DropRc(h1, f)
          IN [ heap |-> DropRc(h2, o), first |-> o, tail |-> o ]

\* List::append; the new node is NAlloc(h) + 1
ListAppend(h, f, t, v) ==
  LET tl == Upgrade(h, t)
      o == NAlloc(h) + 1
  IN IF tl # 0
     THEN LET h1 == RcNew(BorrowMut(RcClone(h, tl), tl), v, tl, 0)  \* muttail, otherref
              \* muttail.next = Some(otherref): the old next is dropped
              h2 == DropRc([ h1 EXCEPT !.next[tl] = o ], h.next[tl])
          IN [ heap |-> DropRc(ReleaseMut(h2, tl), tl), first |-> f, tail |-> o ]
     ELSE LET h1 == RcClone(RcNew(h, v, 0, 0), o)
              h2 == DropRc(h1, f)                          \* self.first = Some(otherref.clone())
          IN [ heap |-> DropRc(h2, o), first |-> o, tail |-> o ]

\* Mutant of InsertFirst: the old first node's next is pointed at the new
\* node as well, which closes a cycle.
InsertFirstCycle(h, f, t, v) ==
  LET o == NAlloc(h) + 1
  IN IF f # 0
     THEN LET h1 == BorrowMut(RcClone(h, f), f)
              h2 == RcNew(RcClone(h1, f), v, 0, f)
              h3 == DropRc([ h2 EXCEPT !.prev[f] = o, !.next[f] = o ], f)
          IN [ heap |-> DropRc(ReleaseMut(h3, f), f), first |-> o, tail |-> t ]
     ELSE [ heap |-> DropRc(RcClone(RcNew(h, v, 0, 0), o), o), first |-> o, tail |-> o ]

\* Mutant of InsertFirst: the old first node's prev is not rewired.
InsertFirstNoPrev(h, f, t, v) ==
  LET o == NAlloc(h) + 1
  IN IF f # 0
     THEN LET h1 == BorrowMut(RcClone(h, f), f)
              h2 == RcNew(RcClone(h1, f), v, 0, f)
              h3 == DropRc(h2, f)
          IN [ heap |-> DropRc(ReleaseMut(h3, f), f), first |-> o, tail |-> t ]
     ELSE [ heap |-> DropRc(RcClone(RcNew(h, v, 0, 0), o), o), first |-> o, tail |-> o ]

\* Mutant of InsertFirst: the new node's next is left empty, so the old
\* chain loses its owner when first is overwritten.
InsertFirstNoNext(h, f, t, v) ==
  LET o == NAlloc(h) + 1
  IN IF f # 0
     THEN LET h1 == BorrowMut(RcClone(h, f), f)
              h2 == RcNew(h1, v, 0, 0)
              h3 == DropRc([ h2 EXCEPT !.prev[f] = o ], f)
          IN [ heap |-> DropRc(ReleaseMut(h3, f), f), first |-> o, tail |-> t ]
     ELSE [ heap |-> DropRc(RcClone(RcNew(h, v, 0, 0), o), o), first |-> o, tail |-> o ]

\* List::insert_first; the new node is NAlloc(h) + 1
InsertFirst(h, f, t, v) ==
  LET o == NAlloc(h) + 1
  IN IF f # 0
     THEN LET h1 == BorrowMut(RcClone(h, f), f)            \* first, mutfirst
              h2 == RcNew(RcClone(h1, f), v, 0, f)         \* other.next = Some(first.clone())
              h3 == DropRc([ h2 EXCEPT !.prev[f] = o ], f) \* self.first = Some(otherref)
          IN [ heap |-> DropRc(ReleaseMut(h3, f), f), first |-> o, tail |-> t ]
     ELSE [ heap |-> DropRc(RcClone(RcNew(h, v, 0, 0), o), o), first |-> o, tail |-> o ]

\* Mutant of PeekFront: self.first.as_ref().unwrap(), a panic on an empty list.
PeekFrontUnwrap(h, f, t) ==
  IF f = 0
  THEN [ heap |-> [ h EXCEPT !.panic = TRUE ], ret |-> << >> ]
  ELSE [ heap |-> ReleaseShared(BorrowShared(h, f), f), ret |-> << h.value[f] >> ]

\* List::peek_front
PeekFront(h, f, t) ==
  IF f = 0
  THEN [ heap |-> h, ret |-> << >> ]
  ELSE [ heap |-> ReleaseShared(BorrowShared(h, f), f), ret |-> << h.value[f] >> ]

\* Mutant of PeekEnd: the value is read from the first node.
PeekEndReadsFirst(h, f, t) ==
  LET tl == Upgrade(h, t)
  IN IF tl = 0
     THEN [ heap |-> h, ret |-> << >> ]
     ELSE [ heap |-> DropRc(ReleaseShared(BorrowShared(RcClone(h, tl), tl), tl), tl),
            ret |-> << h.value[f] >> ]

\* List::peek_end
PeekEnd(h, f, t) ==
  LET tl == Upgrade(h, t)
  IN IF tl = 0
     THEN [ heap |-> h, ret |-> << >> ]
     ELSE [ heap |-> DropRc(ReleaseShared(BorrowShared(RcClone(h, tl), tl), tl), tl),
            ret |-> << h.value[tl] >> ]

\* Mutant of PopTailDetach: the new tail's next is not severed.
PopTailKeepsNext(h, newtail) == h

\* pop_tail, lines 188-190: if let Some(newtail) = tail.prev.upgrade()
\* { newtail.borrow_mut().next = None; }
PopTailDetach(h, newtail) ==
  IF newtail = 0
  THEN h
  ELSE LET h1 == BorrowMut(RcClone(h, newtail), newtail)
           h2 == DropRc([ h1 EXCEPT !.next[newtail] = 0 ], h.next[newtail])
       IN DropRc(ReleaseMut(h2, newtail), newtail)

\* Mutant of PopTailFinish: first is not cleared when the last node is popped.
PopTailKeepsFirst(h, f, t1, tailref) ==
  LET h1 == [ h EXCEPT !.prev[tailref] = 0 ]
  IN [ heap |-> DropRc(ReleaseMut(h1, tailref), tailref),
       first |-> f, tail |-> t1, ret |-> << h.value[tailref] >> ]

\* pop_tail, lines 191-195, with self.tail already set to t1: first is
\* cleared when the new tail resolves to nothing, the popped node's prev is
\* reset, and tail and tailref go out of scope.
PopTailFinish(h, f, t1, tailref) ==
  LET empty == Upgrade(h, t1) = 0                          \* self.tail.upgrade().is_none()
      h1 == IF empty THEN DropRc(h, f) ELSE h              \* self.first = None
      h2 == [ h1 EXCEPT !.prev[tailref] = 0 ]
  IN [ heap |-> DropRc(ReleaseMut(h2, tailref), tailref),
       first |-> IF empty THEN 0 ELSE f, tail |-> t1,
       ret |-> << h.value[tailref] >> ]

\* Mutant of PopTail: self.tail is not moved to the popped node's prev.
PopTailKeepsTail(h, f, t) ==
  LET tailref == Upgrade(h, t)
  IN IF tailref = 0
     THEN [ heap |-> h, first |-> f, tail |-> t, ret |-> << >> ]
     ELSE PopTailFinish(
            PopTailDetach(BorrowMut(RcClone(h, tailref), tailref),
                          Upgrade(h, h.prev[tailref])),
            f, t, tailref)

\* List::pop_tail
PopTail(h, f, t) ==
  LET tailref == Upgrade(h, t)
  IN IF tailref = 0
     THEN [ heap |-> h, first |-> f, tail |-> t, ret |-> << >> ]
     ELSE PopTailFinish(
            PopTailDetach(BorrowMut(RcClone(h, tailref), tailref),
                          Upgrade(h, h.prev[tailref])),
            f, h.prev[tailref], tailref)                   \* self.tail = tail.prev.clone()

\* Mutant of PopFirstFinish: the new first node, f1, gets its prev cleared.
PopFirstClearsPrev(h, f, f1, t) ==
  LET h1 == IF f1 = 0
            THEN h
            ELSE DropRc(ReleaseMut(
                   [ BorrowMut(RcClone(h, f1), f1) EXCEPT !.prev[f1] = 0 ],
                   f1), f1)
  IN [ heap |-> DropRc(ReleaseMut(h1, f), f), first |-> f1,
       tail |-> IF f1 = 0 THEN 0 ELSE t, ret |-> << h.value[f] >> ]

\* pop_first, lines 205-211, with self.first already set to f1 and first.next
\* reset: tail is cleared when the list is empty, the node first.next now
\* names (none, after the reset) gets its prev cleared, and first and
\* firstref go out of scope.
PopFirstFinish(h, f, f1, t) ==
  LET newfirst == h.next[f]                                \* first.next.clone()
      h1 == IF newfirst = 0
            THEN h
            ELSE DropRc(ReleaseMut(
                   [ BorrowMut(RcClone(h, newfirst), newfirst) EXCEPT !.prev[newfirst] = 0 ],
                   newfirst), newfirst)
  IN [ heap |-> DropRc(ReleaseMut(h1, f), f), first |-> f1,
       tail |-> IF f1 = 0 THEN 0 ELSE t, ret |-> << h.value[f] >> ]

\* Mutant of PopFirst: self.first is emptied instead of advanced.
PopFirstClears(h, f, t) ==
  IF f = 0
  THEN [ heap |-> h, first |-> f, tail |-> t, ret |-> << >> ]
  ELSE LET h1 == DropRc(BorrowMut(RcClone(h, f), f), f)
           h2 == DropRc([ h1 EXCEPT !.next[f] = 0 ], h.next[f])
       IN PopFirstFinish(h2, f, 0, t)

\* List::pop_first
PopFirst(h, f, t) ==
  IF f = 0
  THEN [ heap |-> h, first |-> f, tail |-> t, ret |-> << >> ]
  ELSE LET h1 == BorrowMut(RcClone(h, f), f)               \* firstref, first
           h2 == DropRc(RcClone(h1, h.next[f]), f)         \* self.first = first.next.clone()
           h3 == DropRc([ h2 EXCEPT !.next[f] = 0 ], h.next[f])  \* first.next = None
       IN PopFirstFinish(h3, f, h.next[f], t)

\* drop of the List: first (the Option<Rc>), then tail (a Weak)
ListDrop(h, f, t) == DropRc(h, f)

----------------------------------------------------------------------------
\* What the calls since construction have been.  kind is
\*   "build"  from_vec or new, then only append: base is what was put in;
\*   "popf"   a build, then only pop_first: seq is what the pops returned;
\*   "popt"   a build, then only pop_tail: seq is what the pops returned;
\*   "concat" a build, then k times concat(from_vec(seq)) (concats of an
\*            empty list are counted up to MaxNone);
\*   "ins"    a build, then insert_first of the values of seq, in that order;
\*   "other"  anything else.
RunBuild(b) == [ kind |-> "build", base |-> b, seq |-> << >>, k |-> 0 ]
RunOther == [ kind |-> "other", base |-> << >>, seq |-> << >>, k |-> 0 ]

RunAppend(r, v) ==
  IF r.kind = "build" THEN RunBuild(Append(r.base, v)) ELSE RunOther

RunInsert(r, v) ==
  IF r.kind \in { "build", "ins" }
  THEN [ r EXCEPT !.kind = "ins", !.seq = Append(@, v) ]
  ELSE RunOther

RunConcat(r, b) ==
  IF r.kind = "build" \/ (r.kind = "concat" /\ r.seq = b)
  THEN [ r EXCEPT !.kind = "concat", !.seq = b,
                  !.k = IF b = << >> /\ @ >= MaxNone THEN @ ELSE @ + 1 ]
  ELSE RunOther

RunPop(r, kind, res) ==
  IF r.kind \in { "build", kind }
  THEN [ r EXCEPT !.kind = kind,
                  !.seq = IF Len(@) < Len(r.base) + MaxNone THEN Append(@, res) ELSE @ ]
  ELSE RunOther

\* Mutant of SlowAppendAll: the loop stops after the first element.
SlowAppendOne(h, f, t, v) ==
  IF v = << >>
  THEN [ heap |-> h, first |-> f, tail |-> t ]
  ELSE ListAppend(h, f, t, Head(v))

\* slow_from_vec, lines 76-78: for n in v { l.append(*n); }
RECURSIVE SlowAppendAll(_, _, _, _)
SlowAppendAll(h, f, t, v) ==
  IF v = << >>
  THEN [ heap |-> h, first |-> f, tail |-> t ]
  ELSE SlowAppendAll(ListAppend(h, f, t, Head(v)).heap,
                     ListAppend(h, f, t, Head(v)).first,
                     ListAppend(h, f, t, Head(v)).tail, Tail(v))

\* List::slow_from_vec
SlowFromVec(h, v) == SlowAppendAll(h, ListNew.first, ListNew.tail, v)

----------------------------------------------------------------------------
\* linked4: a singly linked list of Box<LinkedList1>.  A Box is owned by one
\* place, so a node is a value: [value, next], with next an
\* Option<Box<LinkedList1>>, << >> for None and << node >> for Some(node).

\* LinkedList1::new / LinkedList1::new_box
NewBox(value, next) == [ value |-> value, next |-> next ]

\* enum List { First(Box<LinkedList1>), Empty }
ListFirst(b) == [ tag |-> "First", list |-> << b >> ]
ListEmpty == [ tag |-> "Empty", list |-> << >> ]

\* IterLinkedList1::next, on the cursor c : Option<&LinkedList1>
L4IterNext(c) ==
  IF c = << >>
  THEN [ ret |-> << >>, cursor |-> << >> ]
  ELSE [ ret |-> << c[1].value >>, cursor |-> c[1].next ]

\* Iterator::collect on an IterLinkedList1: next() until it returns None
RECURSIVE L4Collect(_)
L4Collect(c) ==
  IF L4IterNext(c).ret = << >>
  THEN << >>
  ELSE L4IterNext(c).ret \o L4Collect(L4IterNext(c).cursor)

\* LinkedList1::iter(), collected; a List::Empty has no node to iterate
L4ToVec(l) == IF l.tag = "First" THEN L4Collect(l.list) ELSE << >>

\* The loop of List::new over slice.iter().rev(), at element i.
RECURSIVE L4NewLoop(_, _, _)
L4NewLoop(slice, i, cur) ==
  IF i = 0
  THEN cur
  ELSE L4NewLoop(slice, i - 1,
         << [ NewBox(slice[i], << >>) EXCEPT !.next = IF cur # << >> THEN cur ELSE @ ] >>)

\* Mutant of L4New: the slice is walked front to back.
L4NewForward(slice) ==
  IF L4NewLoop(Reverse(slice), Len(slice), << >>) = << >>
  THEN ListEmpty
  ELSE ListFirst(L4NewLoop(Reverse(slice), Len(slice), << >>)[1])

\* List::new (linked4)
L4New(slice) ==
  IF L4NewLoop(slice, Len(slice), << >>) = << >>
  THEN ListEmpty
  ELSE ListFirst(L4NewLoop(slice, Len(slice), << >>)[1])

\* LinkedList1::tail_mut from node cur, d links below the node it was called
\* on: the number of links down to the node it returns, or the panic of
\* unreachable!() when the while-let pattern fails.
RECURSIVE TailMut(_, _)
TailMut(cur, d) ==
  IF cur.next # << >>
  THEN IF cur.next[1].next # << >>
       THEN TailMut(cur.next[1], d + 1)
       ELSE [ panic |-> FALSE, depth |-> d + 1 ]
  ELSE [ panic |-> TRUE, depth |-> d ]

\* tail.next = boxval, with tail the node d links below node
RECURSIVE SetTailNext(_, _, _)
SetTailNext(node, d, boxval) ==
  IF d = 0
  THEN [ node EXCEPT !.next = boxval ]
  ELSE [ node EXCEPT !.next = << SetTailNext(@[1], d - 1, boxval) >> ]

\* The copy loop of concat_copy over array.iter().rev(), at element i.
RECURSIVE L4CopyLoop(_, _, _)
L4CopyLoop(array, i, cur) ==
  IF i = 0 THEN cur ELSE L4CopyLoop(array, i - 1, << NewBox(array[i], cur) >>)

\* The match of concat_copy on self, with the copy boxval
L4Attach(self, boxval) ==
  IF self.tag = "First"
  THEN IF TailMut(self.list[1], 0).panic
       THEN [ self |-> self, panic |-> TRUE ]
       ELSE [ self |-> ListFirst(SetTailNext(self.list[1],
                                             TailMut(self.list[1], 0).depth, boxval)),
              panic |-> FALSE ]
  ELSE [ self |-> IF boxval # << >> THEN ListFirst(boxval[1]) ELSE self,
         panic |-> FALSE ]

\* List::concat_copy(&mut self, other: &Self)
L4ConcatCopy(self, other) ==
  IF other.tag = "First"
  THEN L4Attach(self, L4CopyLoop(L4Collect(other.list), Len(L4Collect(other.list)), << >>))
  ELSE [ self |-> self, panic |-> FALSE ]

\* List::add_item
L4AddItem(self, value) ==
  IF self.tag = "First"
  THEN IF TailMut(self.list[1], 0).panic
       THEN [ self |-> self, panic |-> TRUE ]
       ELSE [ self |-> ListFirst(SetTailNext(self.list[1], TailMut(self.list[1], 0).depth,
                                             << NewBox(value, << >>) >>)),
              panic |-> FALSE ]
  ELSE [ self |-> ListFirst(NewBox(value, << >>)), panic |-> FALSE ]

----------------------------------------------------------------------------
\* The program: one List, at most one IterList over it.

Init ==
  /\ l4 = [ self |-> L4New(<< >>), other |-> L4New(<< >>), panic |-> FALSE ]
  /\ heap = EmptyHeap
  /\ first = ListNew.first
  /\ tail = ListNew.tail
  /\ listLive = TRUE
  /\ itLive = FALSE
  /\ cursor = 0
  /\ revcursor = 0
  /\ fwd = << >>
  /\ bwd = << >>
  /\ mutLive = FALSE
  /\ mutcursor = 0
  /\ got = << >>
  /\ held = { }
  /\ op = "new"
  /\ arg = << >>
  /\ ret = << >>
  /\ contents = << >>
  /\ pre = << >>
  /\ run = RunBuild(<< >>)

\* The list may be changed: it exists, no IterList is live (the caller's
\* obligation), and no borrow has failed.
CanMutate == listLive /\ ~itLive /\ ~heap.panic
CanRead == listLive /\ ~heap.panic

IterVars == << itLive, cursor, revcursor, fwd, bwd >>
MutVars == << mutLive, mutcursor, got, held >>
ListVars == << first, tail, listLive >>
RefVars == << contents, pre, run >>

\* let l = List::from_vec(&v), in place of the List::new() of Init
DoFromVec(v) ==
  /\ CanMutate /\ op = "new"
  /\ LET r == FromVec(Fresh(heap), v)
     IN /\ heap' = r.heap
        /\ first' = r.first
        /\ tail' = r.tail
  /\ op' = "from_vec" /\ arg' = v /\ ret' = << >>
  /\ pre' = contents /\ contents' = v /\ run' = RunBuild(v)
  /\ UNCHANGED << l4, MutVars, listLive, IterVars >>

\* l.append(v)
DoAppend(v) ==
  /\ CanMutate
  /\ LET r == ListAppend(Fresh(heap), first, tail, v)
     IN /\ heap' = r.heap
        /\ first' = r.first
        /\ tail' = r.tail
  /\ op' = "append" /\ arg' = << v >> /\ ret' = << >>
  /\ pre' = contents /\ contents' = Append(contents, v) /\ run' = RunAppend(run, v)
  /\ UNCHANGED << l4, MutVars, listLive, IterVars >>

\* l.insert_first(v)
DoInsertFirst(v) ==
  /\ CanMutate
  /\ LET r == InsertFirst(Fresh(heap), first, tail, v)
     IN /\ heap' = r.heap
        /\ first' = r.first
        /\ tail' = r.tail
  /\ op' = "insert_first" /\ arg' = << v >> /\ ret' = << >>
  /\ pre' = contents /\ contents' = << v >> \o contents /\ run' = RunInsert(run, v)
  /\ UNCHANGED << l4, MutVars, listLive, IterVars >>

\* l.concat(List::from_vec(&b))
DoConcat(b) ==
  /\ CanMutate
  /\ LET o == FromVec(Fresh(heap), b)
         r == Concat(o.heap, first, tail, o.first, o.tail)
     IN /\ heap' = r.heap
        /\ first' = r.first
        /\ tail' = r.tail
  /\ op' = "concat" /\ arg' = b /\ ret' = << >>
  /\ pre' = contents /\ contents' = contents \o b /\ run' = RunConcat(run, b)
  /\ UNCHANGED << l4, MutVars, listLive, IterVars >>

\* l.pop_first()
DoPopFirst ==
  /\ CanMutate
  /\ LET r == PopFirst(Fresh(heap), first, tail)
     IN /\ heap' = r.heap
        /\ first' = r.first
        /\ tail' = r.tail
        /\ ret' = r.ret
        /\ run' = RunPop(run, "popf", r.ret)
  /\ op' = "pop_first" /\ arg' = << >>
  /\ pre' = contents
  /\ contents' = IF contents = << >> THEN << >> ELSE Tail(contents)
  /\ UNCHANGED << l4, MutVars, listLive, IterVars >>

\* l.pop_tail()
DoPopTail ==
  /\ CanMutate
  /\ LET r == PopTail(Fresh(heap), first, tail)
     IN /\ heap' = r.heap
        /\ first' = r.first
        /\ tail' = r.tail
        /\ ret' = r.ret
        /\ run' = RunPop(run, "popt", r.ret)
  /\ op' = "pop_tail" /\ arg' = << >>
  /\ pre' = contents
  /\ contents' = IF contents = << >> THEN << >> ELSE Front(contents)
  /\ UNCHANGED << l4, MutVars, listLive, IterVars >>

\* l.peek_front()
DoPeekFront ==
  /\ CanRead
  /\ LET r == PeekFront(Fresh(heap), first, tail)
     IN heap' = r.heap /\ ret' = r.ret
  /\ op' = "peek_front" /\ arg' = << >> /\ pre' = contents
  /\ UNCHANGED << l4, MutVars, ListVars, IterVars, contents, run >>

\* l.peek_end()
DoPeekEnd ==
  /\ CanRead
  /\ LET r == PeekEnd(Fresh(heap), first, tail)
     IN heap' = r.heap /\ ret' = r.ret
  /\ op' = "peek_end" /\ arg' = << >> /\ pre' = contents
  /\ UNCHANGED << l4, MutVars, ListVars, IterVars, contents, run >>

\* l.to_vec()
DoToVec ==
  /\ CanRead
  /\ LET r == ToVec(Fresh(heap), first, tail)
     IN heap' = r.heap /\ ret' = r.ret
  /\ op' = "to_vec" /\ arg' = << >> /\ pre' = contents
  /\ UNCHANGED << l4, MutVars, ListVars, IterVars, contents, run >>

\* l.to_vec_rev()
DoToVecRev ==
  /\ CanRead
  /\ LET r == ToVecRev(Fresh(heap), first, tail)
     IN heap' = r.heap /\ ret' = r.ret
  /\ op' = "to_vec_rev" /\ arg' = << >> /\ pre' = contents
  /\ UNCHANGED << l4, MutVars, ListVars, IterVars, contents, run >>

\* let it = l.iter()
DoIter ==
  /\ CanRead /\ ~itLive
  /\ LET r == Iter(Fresh(heap), first, tail)
     IN heap' = r.heap /\ cursor' = r.cursor /\ revcursor' = r.revcursor
  /\ itLive' = TRUE /\ fwd' = << >> /\ bwd' = << >>
  /\ op' = "iter" /\ arg' = << >> /\ ret' = << >> /\ pre' = contents
  /\ UNCHANGED << l4, MutVars, ListVars, contents, run >>

\* it.next()
DoNext ==
  /\ itLive /\ ~heap.panic
  /\ LET r == IterNext(Fresh(heap), cursor, revcursor)
     IN heap' = r.heap /\ cursor' = r.cursor /\ ret' = r.ret /\ fwd' = fwd \o r.ret
  /\ op' = "next" /\ arg' = << >> /\ pre' = contents
  /\ UNCHANGED << l4, MutVars, ListVars, itLive, revcursor, bwd, contents, run >>

\* it.next_back()
DoNextBack ==
  /\ itLive /\ ~heap.panic
  /\ LET r == IterNextBack(Fresh(heap), cursor, revcursor)
     IN heap' = r.heap /\ revcursor' = r.revcursor /\ ret' = r.ret /\ bwd' = bwd \o r.ret
  /\ op' = "next_back" /\ arg' = << >> /\ pre' = contents
  /\ UNCHANGED << l4, MutVars, ListVars, itLive, cursor, fwd, contents, run >>

\* drop(it)
DoIterDrop ==
  /\ itLive /\ ~heap.panic
  /\ heap' = IterDrop(Fresh(heap), cursor, revcursor)
  /\ itLive' = FALSE /\ cursor' = 0 /\ revcursor' = 0 /\ fwd' = << >> /\ bwd' = << >>
  /\ op' = "drop_iter" /\ arg' = << >> /\ ret' = << >> /\ pre' = contents
  /\ UNCHANGED << l4, MutVars, ListVars, contents, run >>

\* drop(l)
DoListDrop ==
  /\ listLive /\ ~heap.panic
  /\ heap' = ListDrop(Fresh(heap), first, tail)
  /\ listLive' = FALSE /\ first' = 0 /\ tail' = 0
  /\ op' = "drop_list" /\ arg' = << >> /\ ret' = << >> /\ pre' = contents
  /\ UNCHANGED << l4, MutVars, IterVars, contents, run >>

Next ==
  \/ \E v \in SeqsUpTo(MaxLen) : DoFromVec(v)
  \/ \E v \in Vals : NAlloc(heap) < MaxNodes /\ DoAppend(v)
  \/ \E v \in Vals : NAlloc(heap) < MaxNodes /\ DoInsertFirst(v)
  \/ \E b \in SeqsUpTo(MaxLen) : NAlloc(heap) + Len(b) <= MaxNodes /\ DoConcat(b)
  \/ DoPopFirst
  \/ DoPopTail
  \/ DoPeekFront
  \/ DoPeekEnd
  \/ DoToVec
  \/ DoToVecRev
  \/ DoIter
  \/ DoNext
  \/ DoNextBack
  \/ DoIterDrop
  \/ DoListDrop

Spec == Init /\ [][Next]_vars

\* The list's own operations, with no iterator handed out in between: an
\* iterator never writes a node's value, next or prev, and the operations that
\* take &mut self cannot run while one borrows the list.
NextOps ==
  \/ \E v \in SeqsUpTo(MaxLen) : DoFromVec(v)
  \/ \E v \in Vals : NAlloc(heap) < MaxNodes /\ DoAppend(v)
  \/ \E v \in Vals : NAlloc(heap) < MaxNodes /\ DoInsertFirst(v)
  \/ \E b \in SeqsUpTo(MaxLen) : NAlloc(heap) + Len(b) <= MaxNodes /\ DoConcat(b)
  \/ DoPopFirst
  \/ DoPopTail
  \/ DoPeekFront
  \/ DoPeekEnd
  \/ DoToVec
  \/ DoToVecRev
  \/ DoListDrop

SpecOps == Init /\ [][NextOps]_vars

\* linked4.  The linked5 list stays as List::new() left it.
L5Vars == << heap, ListVars, IterVars, MutVars, run >>

\* let mut l = List::new(&a)
DoL4New(a) ==
  /\ op = "new" /\ ~l4.panic
  /\ l4' = [ l4 EXCEPT !.self = L4New(a) ]
  /\ op' = "l4_new" /\ arg' = a /\ ret' = << >>
  /\ pre' = contents /\ contents' = a
  /\ UNCHANGED L5Vars

\* l.concat_copy(&List::new(&b))
DoL4ConcatCopy(b) ==
  /\ ~l4.panic
  /\ l4' = [ self |-> L4ConcatCopy(l4.self, L4New(b)).self,
             other |-> L4New(b),
             panic |-> L4ConcatCopy(l4.self, L4New(b)).panic ]
  /\ op' = "l4_concat_copy" /\ arg' = b /\ ret' = << >>
  /\ pre' = contents /\ contents' = contents \o b
  /\ UNCHANGED L5Vars

\* l.add_item(v)
DoL4AddItem(v) ==
  /\ ~l4.panic
  /\ l4' = [ l4 EXCEPT !.self = L4AddItem(l4.self, v).self,
                       !.panic = L4AddItem(l4.self, v).panic ]
  /\ op' = "l4_add_item" /\ arg' = << v >> /\ ret' = << >>
  /\ pre' = contents /\ contents' = Append(contents, v)
  /\ UNCHANGED L5Vars

NextLinked4 ==
  \/ \E a \in SeqsUpTo(MaxLen) : DoL4New(a)
  \/ \E b \in SeqsUpTo(MaxLen) : Len(contents) + Len(b) <= 2 * MaxLen /\ DoL4ConcatCopy(b)
  \/ \E v \in Vals : Len(contents) < 2 * MaxLen /\ DoL4AddItem(v)

SpecLinked4 == Init /\ [][NextLinked4]_vars

\* An IterList holds Rcs and no borrow of the List (iter() returns a type
\* without a lifetime), so the caller may pop while it keeps one.

\* l.pop_first() while an IterList is alive
DoPopFirstHeld ==
  /\ listLive /\ itLive /\ ~heap.panic
  /\ LET r == PopFirst(Fresh(heap), first, tail)
     IN /\ heap' = r.heap
        /\ first' = r.first
        /\ tail' = r.tail
        /\ ret' = r.ret
  /\ op' = "pop_first" /\ arg' = << >>
  /\ pre' = contents
  /\ contents' = IF contents = << >> THEN << >> ELSE Tail(contents)
  /\ run' = RunOther
  /\ UNCHANGED << l4, MutVars, listLive, IterVars >>

\* l.pop_tail() while an IterList is alive
DoPopTailHeld ==
  /\ listLive /\ itLive /\ ~heap.panic
  /\ LET r == PopTail(Fresh(heap), first, tail)
     IN /\ heap' = r.heap
        /\ first' = r.first
        /\ tail' = r.tail
        /\ ret' = r.ret
  /\ op' = "pop_tail" /\ arg' = << >>
  /\ pre' = contents
  /\ contents' = IF contents = << >> THEN << >> ELSE Front(contents)
  /\ run' = RunOther
  /\ UNCHANGED << l4, MutVars, listLive, IterVars >>

NextIterHeld ==
  \/ Next
  \/ DoPopFirstHeld
  \/ DoPopTailHeld

SpecIterHeld == Init /\ [][NextIterHeld]_vars

\* One IterList at a time over a list built by from_vec.
NextIter ==
  \/ \E v \in SeqsUpTo(MaxLen) : DoFromVec(v)
  \/ DoIter
  \/ DoNext
  \/ DoNextBack
  \/ DoIterDrop

SpecIter == Init /\ [][NextIter]_vars

\* The calls that build, reshape, iterate and drop a list: Next without the
\* read-only calls of List.
NextLife ==
  \/ \E v \in SeqsUpTo(MaxLen) : DoFromVec(v)
  \/ \E v \in Vals : NAlloc(heap) < MaxNodes /\ DoAppend(v)
  \/ \E v \in Vals : NAlloc(heap) < MaxNodes /\ DoInsertFirst(v)
  \/ \E b \in SeqsUpTo(MaxLen) : NAlloc(heap) + Len(b) <= MaxNodes /\ DoConcat(b)
  \/ DoPopFirst
  \/ DoPopTail
  \/ DoIter
  \/ DoNext
  \/ DoNextBack
  \/ DoIterDrop
  \/ DoListDrop

SpecLife == Init /\ [][NextLife]_vars

\* let l = List::slow_from_vec(&v), in place of the List::new() of Init
DoSlowFromVec(v) ==
  /\ CanMutate /\ op = "new"
  /\ LET r == SlowFromVec(Fresh(heap), v)
     IN /\ heap' = r.heap
        /\ first' = r.first
        /\ tail' = r.tail
  /\ op' = "slow_from_vec" /\ arg' = v /\ ret' = << >>
  /\ pre' = contents /\ contents' = v /\ run' = RunBuild(v)
  /\ UNCHANGED << l4, MutVars, listLive, IterVars >>

\* A list built by either constructor, then read and drained.
NextBuild ==
  \/ \E v \in SeqsUpTo(MaxLen) : DoFromVec(v)
  \/ \E v \in SeqsUpTo(MaxLen) : DoSlowFromVec(v)
  \/ DoPopFirst
  \/ DoPopTail
  \/ DoToVec
  \/ DoToVecRev
  \/ DoPeekFront
  \/ DoPeekEnd

SpecBuild == Init /\ [][NextBuild]_vars

\* The nodes reached from node n by following next, in order.  The walk
\* takes at most fuel steps, so a chain that runs into a cycle comes out
\* longer than the number of nodes.
RECURSIVE ChainFrom(_, _, _)
ChainFrom(h, n, fuel) ==
  IF n = 0 \/ fuel = 0
  THEN << >>
  ELSE << n >> \o ChainFrom(h, h.next[n], fuel - 1)

Chain(h, f) == ChainFrom(h, f, NAlloc(h) + 1)

\* let mut it = l.iter_mut()
DoIterMut ==
  /\ CanMutate /\ ~mutLive
  /\ heap' = IterMut(Fresh(heap), first).heap
  /\ mutcursor' = IterMut(Fresh(heap), first).cursor
  /\ mutLive' = TRUE /\ got' = << >>
  /\ op' = "iter_mut" /\ arg' = << >> /\ ret' = << >> /\ pre' = contents
  /\ UNCHANGED << l4, ListVars, IterVars, held, contents, run >>

\* it.next() on the IterListMut; the caller keeps the handle or drops it at once
DoMutNext(keep) ==
  /\ mutLive /\ ~heap.panic
  /\ keep => mutcursor # 0 /\ mutcursor \notin held /\ Cardinality(held) < MaxHeld
  /\ LET r == IterMutNext(Fresh(heap), mutcursor)
     IN /\ heap' = IF keep THEN r.heap ELSE DropRc(r.heap, r.ret)
        /\ mutcursor' = r.cursor
        /\ got' = IF r.ret = 0 THEN got ELSE Append(got, r.ret)
        /\ held' = IF keep THEN held \cup { r.ret } ELSE held
        /\ ret' = IF r.ret = 0 THEN << >> ELSE << r.ret >>
  /\ op' = "mut_next" /\ arg' = << >> /\ pre' = contents
  /\ UNCHANGED << l4, ListVars, IterVars, mutLive, contents, run >>

\* The position of node n in the chain of sequence c, 0 if it is not there.
PosIn(c, n) ==
  IF \E i \in 1..Len(c) : c[i] = n THEN CHOOSE i \in 1..Len(c) : c[i] = n ELSE 0

\* h.borrow_mut().value = v through the kept handle of node n
DoHandleWrite(n, v) ==
  /\ n \in held /\ ~heap.panic
  /\ heap' = HandleWrite(Fresh(heap), n, v)
  /\ op' = "handle_write" /\ arg' = << v >> /\ ret' = << n >>
  /\ pre' = contents
  /\ contents' = [ i \in 1..Len(contents) |->
                     IF i = PosIn(Chain(heap, first), n)
                     THEN v ELSE contents[i] ]
  /\ run' = RunOther
  /\ UNCHANGED << l4, ListVars, IterVars, MutVars >>

\* drop(h) of the kept handle of node n
DoHandleDrop(n) ==
  /\ n \in held /\ ~heap.panic
  /\ heap' = DropRc(Fresh(heap), n)
  /\ held' = held \ { n }
  /\ op' = "drop_handle" /\ arg' = << >> /\ ret' = << >> /\ pre' = contents
  /\ UNCHANGED << l4, ListVars, IterVars, mutLive, mutcursor, got, contents, run >>

\* drop(it) of the IterListMut: its cursor is dropped
DoIterMutDrop ==
  /\ mutLive /\ ~heap.panic
  /\ heap' = DropRc(Fresh(heap), mutcursor)
  /\ mutLive' = FALSE /\ mutcursor' = 0 /\ got' = << >>
  /\ op' = "drop_iter_mut" /\ arg' = << >> /\ ret' = << >> /\ pre' = contents
  /\ UNCHANGED << l4, ListVars, IterVars, held, contents, run >>

\* The list changes shape only while no IterListMut and no handle is out;
\* values are written through kept handles.
NextIterMut ==
  \/ \E v \in SeqsUpTo(MaxLen) : DoFromVec(v)
  \/ ~mutLive /\ held = { } /\ DoPopFirst
  \/ DoIterMut
  \/ \E keep \in BOOLEAN : DoMutNext(keep)
  \/ \E n \in held, v \in Vals : DoHandleWrite(n, v)
  \/ \E n \in held : DoHandleDrop(n)
  \/ DoIterMutDrop

SpecIterMut == Init /\ [][NextIterMut]_vars

\* The list is reshaped while the caller keeps handles that an IterListMut,
\* since dropped, has yielded.
NextHandleHeld ==
  \/ \E v \in SeqsUpTo(MaxLen) : DoFromVec(v)
  \/ \E v \in Vals : NAlloc(heap) < MaxNodes /\ ~mutLive /\ DoAppend(v)
  \/ \E v \in Vals : NAlloc(heap) < MaxNodes /\ ~mutLive /\ DoInsertFirst(v)
  \/ ~mutLive /\ DoPopFirst
  \/ ~mutLive /\ DoPopTail
  \/ DoIterMut
  \/ \E keep \in BOOLEAN : DoMutNext(keep)
  \/ \E n \in held : DoHandleDrop(n)
  \/ DoIterMutDrop

SpecHandleHeld == Init /\ [][NextHandleHeld]_vars

----------------------------------------------------------------------------
\* The scenario of test_insert_first: insert_first calls on from_vec([3,4,0,1,2]).

ScenarioBase == << 3, 4, 0, 1, 2 >>
ScenarioFront == << 9, 11, 15, 32 >>
ScenarioVals == { ScenarioFront[i] : i \in 1..Len(ScenarioFront) }

NextInsertScenario ==
  \/ DoFromVec(ScenarioBase)
  \/ \E v \in ScenarioVals :
       /\ run.base = ScenarioBase
       /\ Len(run.seq) < Len(ScenarioFront)
       /\ DoInsertFirst(v)

SpecInsertScenario == Init /\ [][NextInsertScenario]_vars

----------------------------------------------------------------------------
\* Properties

\* to_vec() and to_vec_rev() of the list as it is now
NowVec == ToVec(heap, first, tail).ret
NowVecRev == ToVecRev(heap, first, tail).ret

\* C1: for every sequence seq, List::from_vec(seq).to_vec() returns exactly seq.
C1_FromVecToVec ==
  op = "from_vec" => NowVec = arg

C1_Witness ==
  /\ op = "from_vec" /\ Len(arg) >= 2 /\ arg[1] = arg[2]
  /\ NowVec = arg

\* C2: for every sequence seq, List::from_vec(seq).to_vec_rev() returns
\* reverse(seq): the walk over prev from tail visits every node once and
\* stops at the first node.
C2_FromVecToVecRev ==
  op = "from_vec" => NowVecRev = Reverse(arg)

C2_Witness ==
  /\ op = "from_vec" /\ Len(arg) >= 2 /\ arg[1] # arg[2]
  /\ NowVecRev = Reverse(arg)

\* C3: after l = from_vec(a) and k calls l.concat(from_vec(b)), l.to_vec() is
\* a followed by k copies of b; a and b may be empty.
C3_ConcatToVec ==
  (listLive /\ run.kind = "concat") =>
     NowVec = run.base \o Repeat(run.seq, run.k)

C3_Witness ==
  /\ listLive /\ op = "concat" /\ run.kind = "concat"
  /\ run.k >= 2 /\ run.base # << >> /\ run.seq # << >>
  /\ NowVec = run.base \o run.seq \o run.seq

\* C4: on a list holding v0..vn-1 (built by from_vec or by appends), repeated
\* pop_first returns Some(v0), ..., Some(vn-1) in that order, and then None.
C4_PopFirstOrder ==
  run.kind = "popf" =>
     \A i \in 1..Len(run.seq) :
        run.seq[i] = IF i <= Len(run.base) THEN << run.base[i] >> ELSE << >>

C4_Witness ==
  /\ run.kind = "popf" /\ op = "pop_first"
  /\ Len(run.base) >= 2 /\ Len(run.seq) > Len(run.base)
  /\ ret = << >>

\* C5: on a list holding v0..vn-1 (built by from_vec or by appends), repeated
\* pop_tail returns Some(vn-1), ..., Some(v0) in that order, and then None.
C5_PopTailOrder ==
  run.kind = "popt" =>
     \A i \in 1..Len(run.seq) :
        run.seq[i] = IF i <= Len(run.base)
                     THEN << run.base[Len(run.base) + 1 - i] >>
                     ELSE << >>

C5_Witness ==
  /\ run.kind = "popt" /\ op = "pop_tail"
  /\ Len(run.base) >= 2 /\ Len(run.seq) > Len(run.base)
  /\ ret = << >>

\* C6: once pop_first and pop_tail calls, in any mix, have removed every
\* element, the list is as List::new() leaves it: first is empty, tail
\* resolves to no node, to_vec() and to_vec_rev() are empty, and a further
\* pop_first or pop_tail returns None.
C6_DrainedIsNew ==
  (listLive /\ op \in { "pop_first", "pop_tail" } /\ contents = << >>) =>
     /\ first = 0
     /\ Upgrade(heap, tail) = 0
     /\ NowVec = << >>
     /\ NowVecRev = << >>
     /\ PopFirst(heap, first, tail).ret = << >>
     /\ PopTail(heap, first, tail).ret = << >>

\* the last element has just been popped from the tail of a list that
\* pop_first had shortened before
C6_Witness ==
  /\ listLive /\ op = "pop_tail" /\ ret # << >> /\ contents = << >>
  /\ tail # 0 /\ Upgrade(heap, tail) = 0
  /\ first = 0

\* C7: after l.insert_first(v) on a list with contents s, to_vec() is
\* [v] ++ s and to_vec_rev() is its reverse; when s was empty the new node
\* is both first and tail.
C7_InsertFirst ==
  (listLive /\ op = "insert_first") =>
     /\ NowVec = arg \o pre
     /\ NowVecRev = Reverse(arg \o pre)
     /\ pre = << >> => (first = NAlloc(heap) /\ Upgrade(heap, tail) = first)

C7_Witness ==
  /\ listLive /\ op = "insert_first" /\ Len(pre) >= 2
  /\ NowVecRev = Reverse(arg \o pre)

\* C8, as stated: from_vec([3,4,0,1,2]), then insert_first(9), (11), (15),
\* (32) in that order, yields to_vec() == [9,11,15,32,3,4,0,1,2].
C8_AsStated ==
  (run.kind = "ins" /\ run.base = ScenarioBase /\ run.seq = ScenarioFront) =>
     NowVec = ScenarioFront \o ScenarioBase

\* C8, amended: from_vec([3,4,0,1,2]), then insert_first(32), (15), (11),
\* (9), the values of [9,11,15,32] taken back to front, yields
\* to_vec() == [9,11,15,32,3,4,0,1,2].
C8_InsertReversed ==
  (run.kind = "ins" /\ run.base = ScenarioBase /\ run.seq = Reverse(ScenarioFront)) =>
     NowVec = ScenarioFront \o ScenarioBase

C8_Witness ==
  /\ run.kind = "ins" /\ run.base = ScenarioBase /\ run.seq = Reverse(ScenarioFront)
  /\ op = "insert_first"
  /\ NowVec = << 9, 11, 15, 32, 3, 4, 0, 1, 2 >>

\* C9: over one IterList on a list of n nodes, whatever the interleaving of
\* next() and next_back(): the values next() has yielded are the front of the
\* list in order, those next_back() has yielded are its back in reverse
\* order, no more than n values are yielded in all (no node twice), and once
\* n have been yielded both next() and next_back() return None.
C9_IterYieldsOnce ==
  (itLive /\ listLive) =>
     /\ fwd = SubSeq(contents, 1, Len(fwd))
     /\ bwd = SubSeq(Reverse(contents), 1, Len(bwd))
     /\ Len(fwd) + Len(bwd) <= Len(contents)
     /\ Len(fwd) + Len(bwd) = Len(contents) =>
          /\ IterNext(heap, cursor, revcursor).ret = << >>
          /\ IterNextBack(heap, cursor, revcursor).ret = << >>

\* C10: on an empty list pop_first, pop_tail, peek_front and peek_end return
\* None without a panic, and the list is still empty: first is empty and
\* tail resolves to no node.
C10_EmptyReturnsNone ==
  (op \in { "pop_first", "pop_tail", "peek_front", "peek_end" } /\ pre = << >>) =>
     /\ ret = << >>
     /\ ~heap.panic
     /\ first = 0
     /\ Upgrade(heap, tail) = 0

\* peek_end on a list that pops from both ends have emptied
C10_Witness ==
  /\ op = "peek_end" /\ pre = << >> /\ ret = << >>
  /\ tail # 0 /\ NAlloc(heap) >= 2

\* C11: on a non-empty list with contents s, peek_front returns Some(first
\* element of s) and peek_end returns Some(last element of s), and the call
\* leaves first, tail and every node's value, next and prev as they were.
C11_PeekReadsOnly ==
  [][ (op' \in { "peek_front", "peek_end" } /\ contents # << >>) =>
        /\ ret' = IF op' = "peek_front"
                  THEN << contents[1] >>
                  ELSE << contents[Len(contents)] >>
        /\ first' = first
        /\ tail' = tail
        /\ heap'.value = heap.value
        /\ heap'.next = heap.next
        /\ heap'.prev = heap.prev
        /\ heap'.strong = heap.strong ]_vars

C11_Witness ==
  /\ op = "peek_end" /\ Len(contents) >= 2
  /\ contents[1] # contents[Len(contents)]
  /\ ret = << contents[Len(contents)] >>

\* C12: when a list is dropped, Node::drop never nests deeper than a constant
\* that does not depend on the number of nodes: the head's destructor runs
\* the unlink loop, and every other node is destroyed, with its next already
\* empty, directly inside it.
C12_DropDepthConstant ==
  op = "drop_list" => heap.maxdepth <= 2 /\ heap.depth = 0

C12_Witness ==
  op = "drop_list" /\ Len(pre) = MaxNodes /\ heap.maxdepth = 2 /\ ~itLive

\* C13: dropping a list, whatever operations built it, with no iterator
\* outstanding, ends with no node allocated: a weak prev or tail never keeps
\* a node alive.
C13_DropFreesAll ==
  (op = "drop_list" /\ ~itLive) =>
     /\ ~heap.panic
     /\ \A n \in 1..NAlloc(heap) : heap.strong[n] = 0

C13_Witness ==
  /\ op = "drop_list" /\ ~itLive /\ Len(pre) >= 2
  /\ run.kind \in { "ins", "other" }
  /\ \A n \in 1..NAlloc(heap) : heap.strong[n] = 0

Allocated(h) == { n \in 1..NAlloc(h) : h.strong[n] > 0 }

\* C14: concat moves nodes.  After receiver.concat(other) the nodes reached
\* from the receiver's first are the receiver's former nodes followed by
\* other's former nodes, the very same nodes; the call allocates and frees no
\* node, and the consumed list keeps no strong link (each chain node has
\* exactly one owner).
C14_ConcatMovesNodes ==
  [][ op' = "concat" =>
        LET o == FromVec(Fresh(heap), arg')
        IN /\ Chain(heap', first') = Chain(heap, first) \o Chain(o.heap, o.first)
           /\ NAlloc(heap') = NAlloc(o.heap)
           /\ Allocated(heap') = Allocated(o.heap)
           /\ heap'.value = o.heap.value
           /\ \A n \in Allocated(heap') : heap'.strong[n] = 1 ]_vars

C14_Witness ==
  /\ op = "concat" /\ pre # << >> /\ Len(arg) >= 2
  /\ Len(Chain(heap, first)) = Len(pre) + Len(arg)
  /\ \A n \in Allocated(heap) : heap.strong[n] = 1

\* C15: in linked4, List::new(slice) builds a chain whose forward iteration
\* yields exactly the elements of slice in order, and is List::Empty for an
\* empty slice.
C15_L4NewIterates ==
  op = "l4_new" =>
     /\ L4ToVec(l4.self) = arg
     /\ (arg = << >>) = (l4.self = ListEmpty)
     /\ ~l4.panic

C15_Witness ==
  /\ op = "l4_new" /\ Len(arg) = MaxLen /\ arg[1] # arg[MaxLen]
  /\ L4ToVec(l4.self) = arg

\* C16: in linked4, for all a and b, lengths 0 and 1 included, after
\* l = List::new(a); l.concat_copy(&List::new(b)) forward iteration of l
\* yields a followed by b, the call does not panic, and the argument is as
\* it was.
C16_L4ConcatCopy ==
  op = "l4_concat_copy" =>
     /\ ~l4.panic
     /\ L4ToVec(l4.self) = pre \o arg
     /\ l4.other = L4New(arg)

\* The reference deque is the variable contents: push_back for append,
\* push_front for insert_first, pop_front / pop_back, extend for concat.
OptFront(s) == IF s = << >> THEN << >> ELSE << s[1] >>
OptBack(s) == IF s = << >> THEN << >> ELSE << s[Len(s)] >>

\* C17: for every sequence of append, insert_first, pop_first, pop_tail and
\* concat, from new() or from_vec, every pop and every peek returns what the
\* reference deque returns, and to_vec() equals the reference after every
\* step, a drained and refilled list included.
C17_RefinesDeque ==
  listLive =>
     /\ ~heap.panic
     /\ NowVec = contents
     /\ PeekFront(heap, first, tail).ret = OptFront(contents)
     /\ PeekEnd(heap, first, tail).ret = OptBack(contents)
     /\ op = "pop_first" => ret = OptFront(pre)
     /\ op = "pop_tail" => ret = OptBack(pre)
     /\ op = "peek_front" => ret = OptFront(contents)
     /\ op = "peek_end" => ret = OptBack(contents)

\* a list emptied by pops and filled again
C17_Witness ==
  /\ listLive /\ op \in { "append", "insert_first" } /\ pre = << >>
  /\ NAlloc(heap) = MaxNodes /\ Allocated(heap) = { MaxNodes }
  /\ NowVec = arg

\* The nodes reached from node n by following prev where it resolves.
RECURSIVE RevChainFrom(_, _, _)
RevChainFrom(h, n, fuel) ==
  IF n = 0 \/ fuel = 0
  THEN << >>
  ELSE << n >> \o RevChainFrom(h, Upgrade(h, h.prev[n]), fuel - 1)

RevChain(h, t) == RevChainFrom(h, Upgrade(h, t), NAlloc(h) + 1)

\* C18: after every sequence of operations the nodes reached by next from
\* first are the nodes reached by resolved prev from tail, in reverse order;
\* to_vec_rev() is the reverse of to_vec() in every reachable state.
C18_BackwardIsReverse ==
  listLive =>
     /\ Chain(heap, first) = Reverse(RevChain(heap, tail))
     /\ NowVecRev = Reverse(NowVec)

C18_Witness ==
  /\ listLive /\ op = "append" /\ run.kind = "other"
  /\ Len(Chain(heap, first)) >= 2
  /\ NAlloc(heap) > Len(Chain(heap, first))
  /\ Chain(heap, first) = Reverse(RevChain(heap, tail))

\* C19: for every chain node x with a successor, the successor's prev
\* resolves to x; for every chain node x whose prev resolves to a node,
\* that node's next is x.  This holds across the seam of a concat and for
\* the nodes append and insert_first make.
C19_LinksAgree ==
  listLive =>
     \A i \in 1..Len(Chain(heap, first)) :
        LET x == Chain(heap, first)[i]
        IN /\ heap.next[x] # 0 => Upgrade(heap, heap.prev[heap.next[x]]) = x
           /\ Upgrade(heap, heap.prev[x]) # 0 => heap.next[Upgrade(heap, heap.prev[x])] = x

\* the seam of a concat of two lists of two or more nodes in all
C19_Witness ==
  /\ listLive /\ op = "concat" /\ pre # << >> /\ arg # << >>
  /\ LET x == Chain(heap, first)[Len(pre)]
     IN heap.next[x] # 0 /\ Upgrade(heap, heap.prev[heap.next[x]]) = x

\* C20: the chain is acyclic: following next from any node of the list
\* reaches a node with an empty next within at most as many steps as there
\* are nodes, and meets no node twice.
C20_Acyclic ==
  \A n \in Allocated(heap) :
     LET c == ChainFrom(heap, n, NAlloc(heap) + 1)
     IN /\ Len(c) <= Cardinality(Allocated(heap))
        /\ heap.next[c[Len(c)]] = 0
        /\ \A i, j \in 1..Len(c) : c[i] = c[j] => i = j

C20_Witness ==
  /\ listLive /\ op = "insert_first" /\ run.kind = "other"
  /\ Len(Chain(heap, first)) = MaxNodes
  /\ heap.next[Chain(heap, first)[MaxNodes]] = 0

\* C21: after every sequence of list operations tail resolves to the node at
\* which the next-chain from first ends, and tail resolves to no node
\* exactly when first is empty.
C21_TailIsChainEnd ==
  listLive =>
     /\ (Upgrade(heap, tail) = 0) = (first = 0)
     /\ first # 0 => Upgrade(heap, tail) = Chain(heap, first)[Len(Chain(heap, first))]

\* pops from both ends have shortened a list that is not yet empty
C21_Witness ==
  /\ listLive /\ op = "pop_tail" /\ ret # << >> /\ run.kind = "other"
  /\ first # 0 /\ first # 1
  /\ Upgrade(heap, tail) = Chain(heap, first)[Len(Chain(heap, first))]

\* C22: between operations, with no iterator outstanding, every node of the
\* list has exactly one strong holder, List.first for the first node and the
\* predecessor's next for any other: the allocated nodes are the nodes of the
\* chain, each with strong count 1, and no cell is left borrowed.
C22_OneStrongHolder ==
  (listLive /\ ~itLive) =>
     /\ Allocated(heap) = { Chain(heap, first)[i] : i \in 1..Len(Chain(heap, first)) }
     /\ \A n \in Allocated(heap) : heap.strong[n] = 1 /\ heap.borrow[n] = 0

\* an iterator over a list that operations have changed has been dropped
C22_Witness ==
  /\ listLive /\ ~itLive /\ op = "drop_iter" /\ run.kind = "other"
  /\ Len(Chain(heap, first)) >= 2
  /\ \A n \in Allocated(heap) : heap.strong[n] = 1

\* C23: when pop_tail or pop_first returns Some(v), with no iterator or
\* handle outstanding, the popped node has been freed with its next empty
\* and its prev resolving to nothing, the remaining chain is the old chain
\* less that node, and neither first, tail nor the next of a remaining node
\* refers to it.
C23_PopFreesNode ==
  [][ (op' \in { "pop_first", "pop_tail" } /\ ret' # << >>) =>
        LET p == IF op' = "pop_first" THEN first ELSE Upgrade(heap, tail)
            old == Chain(heap, first)
        IN /\ p # 0
           /\ heap'.strong[p] = 0
           /\ heap'.next[p] = 0
           /\ Upgrade(heap', heap'.prev[p]) = 0
           /\ op' = "pop_first" => Upgrade(heap, heap.prev[p]) = 0
           /\ Chain(heap', first') = IF op' = "pop_first" THEN Tail(old) ELSE Front(old)
           /\ Allocated(heap') = Allocated(heap) \ { p }
           /\ first' # p
           /\ tail' # p
           /\ \A n \in Allocated(heap') : heap'.next[n] # p ]_vars

C23_Witness ==
  /\ listLive /\ op = "pop_tail" /\ ret # << >> /\ Len(pre) >= 2
  /\ Len(Chain(heap, first)) = Len(pre) - 1
  /\ Cardinality(Allocated(heap)) = Len(pre) - 1

\* C24: after pop_first returns on a list that had at least two nodes, the
\* new first node's prev has been cleared: it resolves to no node.
C24_NewFirstPrevCleared ==
  (listLive /\ op = "pop_first" /\ Len(pre) >= 2) =>
     /\ first # 0
     /\ Upgrade(heap, heap.prev[first]) = 0

\* C25: whenever next() or next_back() yields the value of a node that both
\* cursors reference, the forward cursor and the backward cursor are both
\* empty when the call returns.
C25_BothCursorsEmptied ==
  [][ (op' \in { "next", "next_back" } /\ itLive /\ cursor # 0 /\ PtrEq(heap, cursor, revcursor)) =>
        /\ ret' = << heap.value[cursor] >>
        /\ cursor' = 0
        /\ revcursor' = 0 ]_vars

\* C26: the cursors converge by node identity, never by value.  On a list
\* of n nodes, equal values or not, a forward-only and a backward-only
\* traversal each yield the n values, and a call empties its cursor only
\* when the cursor references the node the opposite cursor references or the
\* chain ends there.
C26_ConvergeByIdentity ==
  [][ /\ (op' = "next" /\ itLive /\ cursor # 0) =>
           (cursor' = 0) = (cursor = revcursor \/ heap.next[cursor] = 0)
      /\ (op' = "next_back" /\ itLive /\ revcursor # 0) =>
           (revcursor' = 0) = (cursor = revcursor \/ Upgrade(heap, heap.prev[revcursor]) = 0)
      /\ (op' = "next" /\ itLive /\ ret' = << >> /\ bwd = << >>) => fwd' = contents
      /\ (op' = "next_back" /\ itLive /\ ret' = << >> /\ fwd = << >>) =>
           bwd' = Reverse(contents) ]_vars

\* a forward-only traversal of a list of equal values has ended
C26_Witness ==
  /\ itLive /\ op = "next" /\ ret = << >> /\ bwd = << >>
  /\ Len(contents) = MaxLen /\ \A i \in 1..MaxLen : contents[i] = contents[1]
  /\ fwd = contents

\* C27: for every list with contents s and every value v, after append(v)
\* to_vec() is s ++ [v], peek_end() is Some(v), tail resolves to the new
\* node, the new node's prev resolves to the old tail, or to nothing when s
\* was empty and the new node is then first as well, and first is unchanged
\* when s was non-empty.
C27_Append ==
  [][ op' = "append" =>
        LET o == NAlloc(heap) + 1
        IN /\ ToVec(heap', first', tail').ret = contents \o arg'
           /\ PeekEnd(heap', first', tail').ret = arg'
           /\ NAlloc(heap') = o
           /\ Upgrade(heap', tail') = o
           /\ Upgrade(heap', heap'.prev[o]) = Upgrade(heap, tail)
           /\ contents = << >> => (Upgrade(heap, tail) = 0 /\ first' = o)
           /\ contents # << >> => (Upgrade(heap, tail) # 0 /\ first' = first) ]_vars

\* an append to a list that pop_first had shortened to one node
C27_Witness ==
  /\ listLive /\ op = "append" /\ Len(pre) = 1 /\ NAlloc(heap) = MaxNodes
  /\ first = MaxNodes - 1 /\ Upgrade(heap, tail) = MaxNodes
  /\ heap.prev[MaxNodes] = first

\* C28: concat with an empty argument leaves the receiver as it was: first,
\* tail and every node's value and links.  concat of a non-empty argument
\* into an empty receiver makes the receiver's first and tail the argument's
\* first and tail and changes no node's links.
C28_ConcatFrame ==
  [][ op' = "concat" =>
        LET o == FromVec(Fresh(heap), arg')
        IN /\ arg' = << >> =>
                /\ first' = first /\ tail' = tail
                /\ heap'.value = heap.value /\ heap'.next = heap.next
                /\ heap'.prev = heap.prev /\ heap'.strong = heap.strong
           /\ (arg' # << >> /\ contents = << >>) =>
                /\ first = 0 /\ first' = o.first /\ tail' = o.tail
                /\ tail' = NAlloc(heap')
                /\ heap'.value = o.heap.value /\ heap'.next = o.heap.next
                /\ heap'.prev = o.heap.prev /\ heap'.strong = o.heap.strong ]_vars

\* a non-empty argument concatenated into a receiver that pops had emptied
C28_Witness ==
  /\ listLive /\ op = "concat" /\ pre = << >> /\ Len(arg) >= 2
  /\ first # 0 /\ first # 1 /\ tail = NAlloc(heap)
  /\ Chain(heap, first) = << first, tail >>

\* C29: during every list operation (append, insert_first, pop_first,
\* pop_tail, concat, from_vec) at most one node's RefCell is borrowed at any
\* instant.
C29_OneBorrowAtATime ==
  op \in { "append", "insert_first", "pop_first", "pop_tail", "concat", "from_vec" } =>
     heap.maxborrow <= 1

\* C30: for every sequence of from_vec, append, insert_first, pop_first,
\* pop_tail, concat, peek_front, peek_end, to_vec and to_vec_rev followed by
\* the drop of the list, with no borrow held by the caller, no RefCell borrow
\* fails, the teardown loop included, and no cell stays borrowed.
C30_NoBorrowViolation ==
  /\ ~heap.panic
  /\ \A n \in 1..NAlloc(heap) : heap.borrow[n] = 0

\* the teardown loop has run over a list that operations had changed
C30_Witness ==
  /\ op = "drop_list" /\ Len(pre) = MaxNodes /\ run.kind = "other"
  /\ heap.maxborrow >= 1 /\ ~heap.panic
  /\ Allocated(heap) = { }

\* The nodes of heap a whose value, next or prev differs in heap b.
Touched(a, b) ==
  { n \in 1..NAlloc(a) :
      a.value[n] # b.value[n] \/ a.next[n] # b.next[n] \/ a.prev[n] # b.prev[n] }

\* C31: each single-element operation changes only the list handles and the
\* nodes at the mutation point.  append: tail, the old tail's next, the new
\* node.  insert_first: first, the old first's prev, the new node, and not
\* tail on a non-empty list.  pop_tail: tail, the new tail's next, the popped
\* node.  pop_first: first and the popped node.  concat: the old tail's next,
\* the argument's first node's prev, the receiver's tail.  Every other node's
\* value, next and prev stay as they were.
C31_Frame ==
  [][ LET oldtail == Upgrade(heap, tail)
      IN /\ op' = "append" =>
              /\ Touched(heap, heap') \subseteq { oldtail }
              /\ \A n \in Touched(heap, heap') :
                    heap'.value[n] = heap.value[n] /\ heap'.prev[n] = heap.prev[n]
              /\ first # 0 => first' = first
         /\ op' = "insert_first" =>
              /\ Touched(heap, heap') \subseteq { first }
              /\ \A n \in Touched(heap, heap') :
                    heap'.value[n] = heap.value[n] /\ heap'.next[n] = heap.next[n]
              /\ first # 0 => tail' = tail
         /\ op' = "pop_tail" =>
              /\ Touched(heap, heap') \subseteq
                   { oldtail, IF oldtail = 0 THEN 0 ELSE Upgrade(heap, heap.prev[oldtail]) }
              /\ \A n \in Touched(heap, heap') \ { oldtail } :
                    heap'.value[n] = heap.value[n] /\ heap'.prev[n] = heap.prev[n]
              /\ first' \in { first, 0 }
              /\ first' = 0 => Len(contents) <= 1
         /\ op' = "pop_first" =>
              /\ Touched(heap, heap') \subseteq { first }
              /\ tail' \in { tail, 0 }
              /\ tail' # tail => Len(contents) <= 1
         /\ op' = "concat" =>
              LET o == FromVec(Fresh(heap), arg')
              IN /\ Touched(o.heap, heap') \subseteq { oldtail, o.first }
                 /\ \A n \in Touched(o.heap, heap') \ { o.first } :
                       heap'.value[n] = o.heap.value[n] /\ heap'.prev[n] = o.heap.prev[n]
                 /\ \A n \in Touched(o.heap, heap') \ { oldtail } :
                       heap'.value[n] = o.heap.value[n] /\ heap'.next[n] = o.heap.next[n]
                 /\ first # 0 => first' = first ]_vars

\* a pop_first on a list of the most nodes: the two nodes behind the popped
\* one are as they were
C31_Witness ==
  /\ listLive /\ op = "pop_first" /\ Len(pre) = MaxNodes /\ ret # << >>
  /\ first # 0 /\ heap.prev[first] # 0 /\ heap.next[first] # 0

\* C32: for every sequence v, slow_from_vec(v) and from_vec(v) give
\* structurally equivalent lists: the same to_vec() and to_vec_rev(), first
\* and tail at the same positions, the same next and prev relations between
\* corresponding nodes, for the empty and the one-element sequence too.
C32_SlowFromVecSame ==
  op = "slow_from_vec" =>
     LET r == FromVec(EmptyHeap, arg)
     IN /\ NowVec = ToVec(r.heap, r.first, r.tail).ret
        /\ NowVecRev = ToVecRev(r.heap, r.first, r.tail).ret
        /\ first = r.first
        /\ Upgrade(heap, tail) = Upgrade(r.heap, r.tail)
        /\ heap.value = r.heap.value
        /\ heap.next = r.heap.next
        /\ heap.prev = r.heap.prev
        /\ heap.strong = r.heap.strong

C32_Witness ==
  /\ op = "slow_from_vec" /\ Len(arg) = MaxLen /\ arg[1] # arg[MaxLen]
  /\ NowVec = arg /\ NowVecRev = Reverse(arg)
  /\ heap.prev = FromVec(EmptyHeap, arg).heap.prev

\* C33: iter_mut on a list of n nodes yields exactly n node handles, front to
\* back, then None; writing a new value through a yielded handle changes
\* that element in a later to_vec() and to_vec_rev(), and changes no link.
C33_IterMut ==
  [][ /\ mutLive' =>
           got' \o ChainFrom(heap', mutcursor', NAlloc(heap') + 1) = Chain(heap', first')
      /\ op' = "mut_next" =>
           /\ ret' = << >> <=> Len(got) = Len(contents)
           /\ ret' # << >> => ret' = << Chain(heap, first)[Len(got) + 1] >>
           /\ ret' = << >> => got' = Chain(heap, first) /\ Len(got') = Len(contents)
      /\ op' = "handle_write" =>
           /\ PosIn(Chain(heap, first), ret'[1]) # 0
           /\ LET old == Chain(heap, first)
                  new == ToVec(heap', first', tail').ret
              IN /\ Len(new) = Len(old)
                 /\ \A i \in 1..Len(old) :
                      new[i] = IF old[i] = ret'[1] THEN arg'[1] ELSE heap.value[old[i]]
                 /\ ToVecRev(heap', first', tail').ret = Reverse(new)
           /\ heap'.next = heap.next /\ heap'.prev = heap.prev
           /\ first' = first /\ tail' = tail
    ]_vars

C33_Witness ==
  /\ op = "handle_write" /\ ret = << 2 >> /\ contents # pre
  /\ mutLive /\ mutcursor = 0 /\ Len(got) = MaxNodes
  /\ NowVec = contents /\ NowVec[2] = arg[1]

\* C34: in the teardown that starts when the head node of a chain is
\* destroyed, every other node has an empty next when its own destructor
\* runs, and the unlink loop ends after at most as many iterations as the
\* chain has nodes, for chains of one, two and more nodes.
C34_TeardownUnlinked ==
  /\ ~heap.nested
  /\ heap.depth = 0
  /\ op = "drop_list" => heap.iters <= Len(pre)
  /\ (op = "drop_list" /\ Len(pre) <= 1) => heap.iters = 0
  /\ heap.iters <= NAlloc(heap)

C34_Witness ==
  /\ op = "drop_list" /\ ~itLive /\ Len(pre) = MaxNodes
  /\ heap.iters >= 1 /\ heap.maxdepth = 2
  /\ Allocated(heap) = { }

\* C35: keeping a node handle that iter_mut has yielded does not change what
\* later pop_first, pop_tail, append and insert_first calls do: each pop
\* returns what it returns with no handle kept, to_vec() is the same after
\* every call, and a list of n elements is empty after exactly n pops.
C35_HandleChangesNothing ==
  (listLive /\ ~mutLive) =>
     /\ ~heap.panic
     /\ NowVec = contents
     /\ contents = << >> => first = 0
     /\ op = "pop_first" => ret = OptFront(pre)
     /\ op = "pop_tail" => ret = OptBack(pre)

\* C36: when the List is dropped after iter() and before the iterator is
\* exhausted, forward iteration with next() still yields every remaining
\* element, in order: what next() has yielded is always a prefix of the
\* list's contents, and all of it once next() returns None.
C36_IterOutlivesList ==
  (itLive /\ ~listLive /\ bwd = << >> /\ ~heap.panic) =>
     /\ Len(fwd) <= Len(contents)
     /\ fwd = SubSeq(contents, 1, Len(fwd))
     /\ (op = "next" /\ ret = << >>) => fwd = contents

\* C37: in linked4, List::add_item(value) appends at the end in every state
\* of the list: an Empty list becomes a one-node list, and on a list of
\* n >= 1 nodes, n = 1 included, forward iteration afterwards yields the old
\* elements followed by value; the call does not panic.
C37_L4AddItem ==
  op = "l4_add_item" =>
     /\ ~l4.panic
     /\ l4.self.tag = "First"
     /\ L4ToVec(l4.self) = Append(pre, arg[1])

====
